---- MODULE Spec2Model ----
(***************************************************************************)
(* State-machine model of the live part of src/main.py (lines 1-330): the  *)
(* users table, Telegram widget verification, the JWT session codec and    *)
(* the HTTP handlers built on them.                                        *)
(*                                                                         *)
(* Strings are TLA+ strings; str(), f-strings and join are modelled with   *)
(* \o and ToString, so that two different texts are different values.      *)
(* SHA-256 and HMAC-SHA256 are modelled as collision-free: the digest is a *)
(* text that spells out its key and its message.                           *)
(*                                                                         *)
(* telegram_login is split where the handler talks to the database (the    *)
(* SELECT of line 198 and the commit of lines 210/218), because requests   *)
(* are served concurrently and each holds its own Session.  The handlers   *)
(* behind get_current_user are single steps.                               *)
(***************************************************************************)
EXTENDS Integers, Sequences, FiniteSets, TLC

----------------------------------------------------------------------------
(* Bounds of the model *)

NumWorkers == 2     \* telegram_login requests that can be in flight at once
MaxTicks == 2       \* how many times the clock advances
MaxHeld == 1        \* issued tokens that clients keep for later requests
StartTime == 1000000 \* the clock when the server starts

----------------------------------------------------------------------------
(* Configuration, lines 21-23, and the numbers of the source *)

RealBotToken == "bot-token-of-the-deployment"
DefaultBotToken == "your-telegram-bot-token"
SECRET_KEY == "secret-key-of-the-deployment"
OtherKey == "some-other-key"

AuthMaxAge == 86400
TokenDays == 7
MinWalletLen == 40

None == "<None>"    \* Python's None (no input text equals it)

VARIABLES
  users,        \* the rows of table "users"
  now,          \* the clock: time.time() and datetime.utcnow(), in seconds
  ticks,        \* how many times the clock has advanced
  botTokenSet,  \* whether BOT_TOKEN is set in the environment
  req,          \* per worker: the telegram_login request it is serving
  held,         \* tokens issued so far that clients still hold
  resp          \* the last response sent, with the request it answers

vars == <<users, now, ticks, botTokenSet, req, held, resp>>

Workers == 1..NumWorkers

\* os.getenv("BOT_TOKEN", "your-telegram-bot-token")
BOT_TOKEN == IF botTokenSet THEN RealBotToken ELSE DefaultBotToken

----------------------------------------------------------------------------
(* Telegram widget verification, lines 120-152 *)

sha256(s) == "sha256(" \o s \o ")"
hmac_sha256_hex(key, msg) == "hmac(" \o key \o "," \o msg \o ")"

\* str(value) inside the f-string of line 129
Str(v) == IF v = None THEN "None" ELSE v

\* The keys of auth_data.dict() once 'hash' is popped, in sorted() order.
\* .dict() holds every field of the model, the optional ones that were not
\* sent included (with value None).
SortedKeys == <<"auth_date", "first_name", "id", "last_name", "photo_url", "username">>

FieldStr(a, k) ==
  CASE k = "auth_date"  -> ToString(a.auth_date)
    [] k = "first_name" -> Str(a.first_name)
    [] k = "id"         -> ToString(a.id)
    [] k = "last_name"  -> Str(a.last_name)
    [] k = "photo_url"  -> Str(a.photo_url)
    [] k = "username"   -> Str(a.username)

RECURSIVE Join(_)
Join(lines) ==
  IF lines = <<>> THEN ""
  ELSE IF Len(lines) = 1 THEN lines[1]
  ELSE lines[1] \o "\n" \o Join(Tail(lines))

RECURSIVE Lines(_, _)
Lines(a, i) ==
  IF i > Len(SortedKeys) THEN <<>>
  ELSE <<SortedKeys[i] \o "=" \o FieldStr(a, SortedKeys[i])>> \o Lines(a, i + 1)

data_check_string(a) == Join(Lines(a, 1))

calculated_hash(a, bot_token) == hmac_sha256_hex(sha256(bot_token), data_check_string(a))

\* verification that leaves out the check of auth_date (lines 146-150)
verify_without_auth_date(a, bot_token, current_time) ==
  IF a.hash = "" THEN FALSE
  ELSE IF calculated_hash(a, bot_token) # a.hash THEN FALSE
  ELSE TRUE

verify_telegram_auth(a, bot_token, current_time) ==
  IF a.hash = "" THEN FALSE
  ELSE IF calculated_hash(a, bot_token) # a.hash THEN FALSE
  ELSE IF current_time - a.auth_date > AuthMaxAge THEN FALSE
  ELSE TRUE

----------------------------------------------------------------------------
(* What callers send to POST /auth/telegram *)

Ids == {0, 1}                          \* TelegramAuthData.id

\* The display fields of an assertion: no optional field sent, or all sent.
Profiles ==
  { [first_name |-> "A", username |-> None, last_name |-> None, photo_url |-> None],
    [first_name |-> "B", username |-> "u", last_name |-> "l", photo_url |-> "p"] }

\* verification time minus auth_date: the oldest age accepted, and one more
AuthAges == {AuthMaxAge, AuthMaxAge + 1}

\* The check string of the Telegram login widget: the fields that are
\* present, hash excluded, as key=value lines sorted by key.
RECURSIVE PresentLines(_, _)
PresentLines(a, i) ==
  IF i > Len(SortedKeys) THEN <<>>
  ELSE LET k == SortedKeys[i]
           v == CASE k = "first_name" -> a.first_name
                  [] k = "last_name"  -> a.last_name
                  [] k = "photo_url"  -> a.photo_url
                  [] k = "username"   -> a.username
                  [] OTHER            -> ""
       IN  (IF v = None THEN <<>> ELSE <<k \o "=" \o FieldStr(a, k)>>)
             \o PresentLines(a, i + 1)

widget_hash(a, bot_token) == hmac_sha256_hex(sha256(bot_token), Join(PresentLines(a, 1)))

\* The hash values a request may carry for given fields: the widget's
\* signature under the server's bot token, the digest the server computes
\* under that token, the widget's signature under another token, and an
\* empty text.
HashInputs(a) ==
  { widget_hash(a, BOT_TOKEN), calculated_hash(a, BOT_TOKEN),
    widget_hash(a, "another-bot-token"), "" }

AuthFields(t) ==
  { [id |-> i, first_name |-> p.first_name, username |-> p.username,
     last_name |-> p.last_name, photo_url |-> p.photo_url, auth_date |-> t - g] :
    i \in Ids, p \in Profiles, g \in AuthAges }

WithHash(f, h) ==
  [id |-> f.id, first_name |-> f.first_name, username |-> f.username,
   last_name |-> f.last_name, photo_url |-> f.photo_url, auth_date |-> f.auth_date,
   hash |-> h]

\* TelegramAuthData bodies (lines 50-57) offered at time t
AuthInputs(t) == UNION { { WithHash(f, h) : h \in HashInputs(f) } : f \in AuthFields(t) }

\* For each id, a body among them that passes verification at time t
SessionLogins(t) ==
  { a \in AuthInputs(t) : a.first_name = "A" /\ verify_telegram_auth(a, BOT_TOKEN, t) }

----------------------------------------------------------------------------
(* JWT helpers, lines 95-118 *)

TokenLifetime == TokenDays * 24 * 60 * 60

\* jwt.encode(payload, SECRET_KEY, algorithm="HS256"): the claims and the key
\* that signed them
jwt_encode(sub, exp, iat, key) == [sub |-> sub, exp |-> exp, iat |-> iat, key |-> key]

create_access_token(telegram_id, t) ==
  jwt_encode(ToString(telegram_id), t + TokenLifetime, t, SECRET_KEY)

\* jwt.decode(token, SECRET_KEY, algorithms=["HS256"]) of PyJWT: the signature
\* is checked first, then exp (a token is expired once exp <= now).
jwt_decode(token, key, t) ==
  IF token.key # key THEN "InvalidSignatureError"
  ELSE IF token.exp <= t THEN "ExpiredSignatureError"
  ELSE "payload"

\* int(s) on the texts that occur as "sub"
IntTexts == -1..2
IsIntText(s) == \E n \in IntTexts : ToString(n) = s
int(s) == CHOOSE n \in IntTexts : ToString(n) = s

\* a verify_token that reads "sub" from a token whose exp has passed
verify_token_ignoring_exp(token, t) ==
  IF token.key # SECRET_KEY THEN [kind |-> "raise"]
  ELSE IF token.sub = None THEN [kind |-> "raise"]
  ELSE IF ~IsIntText(token.sub) THEN [kind |-> "raise"]
  ELSE [kind |-> "id", id |-> int(token.sub)]

\* verify_token: [kind |-> "id", id |-> n], [kind |-> "None"] or
\* [kind |-> "raise"].  The module jwt (PyJWT) has no attribute JWTError, so
\* whenever an exception other than ExpiredSignatureError reaches line 117,
\* evaluating the clause (jwt.JWTError, ValueError) raises AttributeError,
\* which leaves verify_token.  int(None) raises TypeError, which the clause
\* does not name either.
verify_token(token, t) ==
  LET d == jwt_decode(token, SECRET_KEY, t) IN
  IF d = "ExpiredSignatureError" THEN [kind |-> "None"]
  ELSE IF d = "InvalidSignatureError" THEN [kind |-> "raise"]
  ELSE IF token.sub = None THEN [kind |-> "raise"]
  ELSE IF ~IsIntText(token.sub) THEN [kind |-> "raise"]
  ELSE [kind |-> "id", id |-> int(token.sub)]

----------------------------------------------------------------------------
(* Table users, lines 35-43 *)

NoRow == [id |-> 0]        \* what .first() returns when no row matches

\* db.query(User).filter(User.telegram_id == tid).first()
first_by_telegram_id(rows, tid) ==
  IF \E r \in rows : r.telegram_id = tid
  THEN CHOOSE r \in rows : r.telegram_id = tid
  ELSE NoRow

\* a column telegram_id that is not declared unique
no_unique_constraint(rows, tid) == FALSE

\* unique=True on telegram_id (line 38): an INSERT of a second row with the
\* same telegram_id fails with IntegrityError
unique_violation(rows, tid) == \E r \in rows : r.telegram_id = tid

\* the primary key the table gives a new row
next_id(rows) == Cardinality(rows) + 1

\* the row with primary key pk (rows are never deleted)
by_id(rows, pk) == CHOOSE r \in rows : r.id = pk

\* the user object of the responses, lines 226-233, 239-246 and 291-298
user_body(r) ==
  [telegram_id |-> r.telegram_id, username |-> r.username, first_name |-> r.first_name,
   last_name |-> r.last_name, photo_url |-> r.photo_url, wallet |-> r.wallet]

----------------------------------------------------------------------------
(* Requests and responses *)

NoToken == [none |-> "token"]
NoBody == [none |-> "body"]
NoCred == [none |-> "credentials"]     \* no Authorization header
NoRequest == [none |-> "request"]

Response(op, status, request, token, body) ==
  [op |-> op, status |-> status, request |-> request, token |-> token, body |-> body]

\* no response is waiting to be sent
NoResp == Response("none", 0, NoRequest, NoToken, NoBody)

----------------------------------------------------------------------------
(* POST /auth/telegram, lines 183-234 *)

Idle == [pc |-> "idle"]

\* lines 188-198: verification, then the SELECT.  A request is taken by the
\* free worker with the lowest number.
LoginQuery(w, a) ==
  /\ resp = NoResp
  /\ req[w].pc = "idle"
  /\ \A v \in Workers : v < w => req[v].pc # "idle"
  /\ IF ~verify_telegram_auth(a, BOT_TOKEN, now)
     THEN /\ resp' = Response("login", 401, a, NoToken, NoBody)
          /\ UNCHANGED req
     ELSE /\ req' = [req EXCEPT ![w] = [pc |-> "selected", auth |-> a,
                                        user |-> first_by_telegram_id(users, a.id)]]
          /\ UNCHANGED resp
  /\ UNCHANGED <<users, now, ticks, botTokenSet, held>>

\* lines 202-210: the INSERT of a new row and its commit
insert_user(rows, a) ==
  rows \cup {[id |-> next_id(rows), telegram_id |-> a.id, username |-> a.username,
              first_name |-> a.first_name, last_name |-> a.last_name,
              photo_url |-> a.photo_url, wallet |-> None]}

\* lines 214-218: the four assignments and the commit.  The Session's flush
\* writes the attributes whose assigned value differs from the value that
\* was loaded by the SELECT; an attribute assigned the value it was loaded
\* with is not part of the UPDATE.
update_user(rows, loaded, a) ==
  LET cur == by_id(rows, loaded.id)
      new == [cur EXCEPT
                !.username   = IF a.username # loaded.username THEN a.username ELSE @,
                !.first_name = IF a.first_name # loaded.first_name THEN a.first_name ELSE @,
                !.last_name  = IF a.last_name # loaded.last_name THEN a.last_name ELSE @,
                !.photo_url  = IF a.photo_url # loaded.photo_url THEN a.photo_url ELSE @]
  IN  (rows \ {cur}) \cup {new}

\* lines 200-234: the write, the commit, the token and the response.  After
\* the commit the attributes of user are loaded again from the table.
LoginCommit(w) ==
  /\ resp = NoResp
  /\ req[w].pc = "selected"
  /\ LET a == req[w].auth
         user == req[w].user
     IN  IF user = NoRow /\ unique_violation(users, a.id)
         THEN \* IntegrityError leaves the handler
              /\ resp' = Response("login", 500, a, NoToken, NoBody)
              /\ UNCHANGED users
         ELSE /\ users' = IF user = NoRow THEN insert_user(users, a)
                          ELSE update_user(users, user, a)
              /\ LET pk == IF user = NoRow THEN next_id(users) ELSE user.id
                     row == by_id(users', pk)
                 IN  resp' = Response("login", 200, a,
                                      create_access_token(row.telegram_id, now),
                                      user_body(row))
  /\ req' = [req EXCEPT ![w] = Idle]
  /\ UNCHANGED <<now, ticks, botTokenSet, held>>

----------------------------------------------------------------------------
(* Authentication dependency, lines 157-178 *)

\* [status |-> 200, user |-> row] or [status |-> 401, 404 or 500].  "not
\* telegram_id" of line 168 holds for None and for 0.
get_current_user(credentials, rows, t) ==
  IF credentials = NoCred THEN [status |-> 401]
  ELSE LET telegram_id == verify_token(credentials, t) IN
       IF telegram_id.kind = "raise" THEN [status |-> 500]
       ELSE IF telegram_id.kind = "None" \/ telegram_id.id = 0 THEN [status |-> 401]
       ELSE LET user == first_by_telegram_id(rows, telegram_id.id) IN
            IF user = NoRow THEN [status |-> 404]
            ELSE [status |-> 200, user |-> user]

\* Tokens that were not issued by the server: one signed with another key,
\* and two signed with SECRET_KEY whose payload has no "sub" or a "sub" that
\* is no number.
CraftedTokens(t) ==
  { jwt_encode("1", t + TokenLifetime, t, OtherKey),
    jwt_encode(None, t + TokenLifetime, t, SECRET_KEY),
    jwt_encode("abc", t + TokenLifetime, t, SECRET_KEY) }

\* What a request may carry as credentials
CredInputs(t) == {NoCred} \cup held \cup CraftedTokens(t)

----------------------------------------------------------------------------
(* GET /auth/me, lines 236-246, and POST /auth/refresh, lines 248-252 *)

Me(c) ==
  /\ resp = NoResp
  /\ LET cu == get_current_user(c, users, now)
         rq == [cred |-> c]
     IN  resp' = IF cu.status # 200 THEN Response("me", cu.status, rq, NoToken, NoBody)
                 ELSE Response("me", 200, rq, NoToken, user_body(cu.user))
  /\ UNCHANGED <<users, now, ticks, botTokenSet, req, held>>

Refresh(c) ==
  /\ resp = NoResp
  /\ LET cu == get_current_user(c, users, now)
         rq == [cred |-> c]
     IN  resp' = IF cu.status # 200 THEN Response("refresh", cu.status, rq, NoToken, NoBody)
                 ELSE Response("refresh", 200, rq,
                               create_access_token(cu.user.telegram_id, now), NoBody)
  /\ UNCHANGED <<users, now, ticks, botTokenSet, req, held>>

----------------------------------------------------------------------------
(* PUT /user/wallet, lines 254-282 *)

IsSpace(c) == c \in {" ", "\t", "\n"}

\* str.strip()
RECURSIVE strip(_)
strip(s) ==
  IF s = "" THEN ""
  ELSE IF IsSpace(SubSeq(s, 1, 1)) THEN strip(SubSeq(s, 2, Len(s)))
  ELSE IF IsSpace(SubSeq(s, Len(s), Len(s))) THEN strip(SubSeq(s, 1, Len(s) - 1))
  ELSE s

\* str.startswith(prefix)
startswith(s, prefix) == Len(s) >= Len(prefix) /\ SubSeq(s, 1, Len(prefix)) = prefix

Tail38 == "abcdefghijklmnopqrstuvwxyz0123456789-_"
Tail37 == "abcdefghijklmnopqrstuvwxyz0123456789-"

\* The "wallet" of the body: texts, and None for a body without the key
\* (wallet_data.get("wallet", "") is then "")
WalletInputs ==
  { None, "", "   ", "EQ" \o Tail38, "  UQ" \o Tail38 \o " ", "EQ" \o Tail37,
    "XQ" \o Tail38 }

\* lines 261-277: the status the validation ends in, 200 when it passes
wallet_status(wallet) ==
  IF wallet = "" THEN 400
  ELSE IF ~(startswith(wallet, "EQ") \/ startswith(wallet, "UQ")) THEN 400
  ELSE IF Len(wallet) < MinWalletLen THEN 400
  ELSE 200

\* a commit that writes the wallet into every row of the table
set_wallet_of_every_row(rows, user, wallet) == { [r EXCEPT !.wallet = wallet] : r \in rows }

set_wallet(rows, user, wallet) == (rows \ {user}) \cup {[user EXCEPT !.wallet = wallet]}

UpdateWallet(c, raw) ==
  /\ resp = NoResp
  /\ LET cu == get_current_user(c, users, now)
         rq == [cred |-> c, wallet |-> raw]
         wallet == strip(IF raw = None THEN "" ELSE raw)
     IN  IF cu.status # 200
         THEN /\ resp' = Response("wallet", cu.status, rq, NoToken, NoBody)
              /\ UNCHANGED users
         ELSE IF wallet_status(wallet) # 200
         THEN /\ resp' = Response("wallet", wallet_status(wallet), rq, NoToken, NoBody)
              /\ UNCHANGED users
         ELSE /\ users' = set_wallet(users, cu.user, wallet)
              /\ resp' = Response("wallet", 200, rq, NoToken, [wallet |-> wallet])
  /\ UNCHANGED <<now, ticks, botTokenSet, req, held>>

----------------------------------------------------------------------------
(* GET /user/{telegram_id}, lines 284-298, and POST /submit-score, 300-319 *)

GetUserById(tid) ==
  /\ resp = NoResp
  /\ LET user == first_by_telegram_id(users, tid)
         rq == [telegram_id |-> tid]
     IN  resp' = IF user = NoRow THEN Response("user", 404, rq, NoToken, NoBody)
                 ELSE Response("user", 200, rq, NoToken, user_body(user))
  /\ UNCHANGED <<users, now, ticks, botTokenSet, req, held>>

\* score_data: a dict that may lack "game" or "score"
ScoreInputs ==
  { [game |-> "chess", score |-> 0], [score |-> 5],
    [game |-> "", score |-> 5], [game |-> "chess"] }

SubmitScore(c, sd) ==
  /\ resp = NoResp
  /\ LET cu == get_current_user(c, users, now)
         rq == [cred |-> c, score_data |-> sd]
     IN  resp' =
           IF cu.status # 200 THEN Response("score", cu.status, rq, NoToken, NoBody)
           ELSE IF "game" \notin DOMAIN sd \/ sd.game = "" \/ "score" \notin DOMAIN sd
           THEN Response("score", 400, rq, NoToken, NoBody)
           ELSE Response("score", 200, rq, NoToken,
                         [game |-> sd.game, score |-> sd.score,
                          user_id |-> cu.user.telegram_id])
  /\ UNCHANGED <<users, now, ticks, botTokenSet, req, held>>

----------------------------------------------------------------------------
(* The environment: the clock, the clients and the transport *)

TickSteps == {TokenLifetime \div 2}    \* seconds the clock advances by

\* The clock advances between two responses, and while logins are in flight.
Tick ==
  /\ resp = NoResp
  /\ ticks < MaxTicks
  /\ \E d \in TickSteps : now' = now + d
  /\ ticks' = ticks + 1
  /\ UNCHANGED <<users, botTokenSet, req, held, resp>>

\* a client stores the token of the response for later requests
KeepToken ==
  /\ resp.token # NoToken
  /\ resp.token \notin held
  /\ \E d \in SUBSET held :
       /\ Cardinality(d) < MaxHeld
       /\ held' = d \cup {resp.token}
  /\ UNCHANGED <<users, now, ticks, botTokenSet, req, resp>>

\* the response is sent
Deliver ==
  /\ resp # NoResp
  /\ resp' = NoResp
  /\ UNCHANGED <<users, now, ticks, botTokenSet, req, held>>

----------------------------------------------------------------------------

Init ==
  /\ users = {}
  /\ now = StartTime
  /\ ticks = 0
  /\ botTokenSet \in BOOLEAN
  /\ req = [w \in Workers |-> Idle]
  /\ held = {}
  /\ resp = NoResp

\* The requests that can be taken up: those of S once the previous response
\* has been sent, none before
Arriving(S) == IF resp = NoResp THEN S ELSE {}

\* POST /auth/telegram requests alone, served concurrently
NextLogin ==
  \/ \E a \in Arriving(AuthInputs(now)) : \E w \in Workers : LoginQuery(w, a)
  \/ \E w \in Workers : LoginCommit(w)
  \/ Deliver

SpecLogin == Init /\ [][NextLogin]_vars

\* Sessions: logins that verify, served one at a time, the requests that
\* carry the tokens they return, and the clock
NextSession ==
  \/ \E a \in Arriving(SessionLogins(now)) : LoginQuery(1, a)
  \/ LoginCommit(1)
  \/ \E c \in Arriving(CredInputs(now)) : Me(c)
  \/ \E c \in Arriving(CredInputs(now)) : Refresh(c)
  \/ \E c \in Arriving(CredInputs(now)) : \E raw \in WalletInputs : UpdateWallet(c, raw)
  \/ \E c \in Arriving(CredInputs(now)) : \E sd \in ScoreInputs : SubmitScore(c, sd)
  \/ \E tid \in Arriving(Ids \cup {2}) : GetUserById(tid)
  \/ KeepToken
  \/ Tick
  \/ Deliver

SpecSession == Init /\ [][NextSession]_vars

\* The whole server
Next ==
  \/ \E a \in Arriving(AuthInputs(now)) : \E w \in Workers : LoginQuery(w, a)
  \/ \E w \in Workers : LoginCommit(w)
  \/ \E c \in Arriving(CredInputs(now)) : Me(c)
  \/ \E c \in Arriving(CredInputs(now)) : Refresh(c)
  \/ \E c \in Arriving(CredInputs(now)) : \E raw \in WalletInputs : UpdateWallet(c, raw)
  \/ \E c \in Arriving(CredInputs(now)) : \E sd \in ScoreInputs : SubmitScore(c, sd)
  \/ \E tid \in Arriving(Ids \cup {2}) : GetUserById(tid)
  \/ KeepToken
  \/ Tick
  \/ Deliver

Spec == Init /\ [][Next]_vars

----------------------------------------------------------------------------
(* Claims about POST /auth/telegram, checked under SpecLogin *)

LoginAnswered == resp.op = "login"

\* the rows of a table whose telegram_id is tid
RowsOf(rows, tid) == { r \in rows : r.telegram_id = tid }

\* C1: in every reachable state of the users table, whatever the
\* interleaving of POST /auth/telegram requests, there is at most one row
\* per telegram_id.
C1_OneRowPerTelegramId ==
  \A i \in Ids : Cardinality(RowsOf(users, i)) <= 1

\* C1, its case: two first logins for the same id both found no row, one
\* has inserted its row and the other's INSERT has just been refused.
C1_Witness ==
  /\ LoginAnswered
  /\ resp.status = 500
  /\ Cardinality(RowsOf(users, resp.request.id)) = 1

\* C2: when two requests with valid assertions for the same, not yet
\* stored, telegram_id run concurrently, both complete with a token and the
\* user: a login that passed verification is never answered with an error.
C2_ConflictNeverSurfaced ==
  (LoginAnswered /\ resp.status # 401) =>
    /\ resp.status = 200
    /\ resp.token # NoToken
    /\ resp.body.telegram_id = resp.request.id

\* C3: a login whose auth_date is fresh and whose hash is the HMAC-SHA256,
\* under SHA256(bot_token), of the key=value lines of exactly the fields
\* that are present is accepted, and the same fields with any other hash
\* are answered 401.
C3_AcceptsExactlyTheWidgetSignature ==
  (botTokenSet /\ LoginAnswered) =>
    LET a == resp.request IN
    /\ (a.hash = widget_hash(a, BOT_TOKEN) /\ now - a.auth_date <= AuthMaxAge)
         => resp.status # 401
    /\ a.hash # widget_hash(a, BOT_TOKEN) => resp.status = 401

\* C4: an assertion whose auth_date is more than 86400 seconds before the
\* verification time never passes verification, also with the hash the
\* server computes; it is answered 401 with no token, and the step that
\* answers it changes no row, no request in flight and no token held.
C4_StaleAssertionRejected ==
  [][ /\ \A w \in Workers :
           (req'[w] # req[w] /\ req'[w].pc = "selected")
             => now - req'[w].auth.auth_date <= 86400
      /\ (resp' # resp /\ resp'.op = "login"
            /\ now - resp'.request.auth_date > 86400)
           => /\ resp'.status = 401
              /\ resp'.token = NoToken
              /\ UNCHANGED <<users, held, req>> ]_vars

\* C4, its case: a stale assertion that carries the hash the server
\* computes has been answered 401.
C4_Witness ==
  /\ LoginAnswered
  /\ resp.status = 401
  /\ now - resp.request.auth_date > 86400
  /\ resp.request.hash = calculated_hash(resp.request, BOT_TOKEN)

\* C9: a successful login for an identity that already has a record
\* overwrites the four display fields of that record with the asserted
\* values, creates no record, and leaves its telegram_id, its wallet and
\* every other record unchanged; no step changes the telegram_id of a
\* record.
C9_LoginOverwritesDisplayFields ==
  [][ /\ (resp' # resp /\ resp'.op = "login" /\ resp'.status = 200
            /\ RowsOf(users, resp'.request.id) # {})
           => \E old \in RowsOf(users, resp'.request.id) :
                \E new \in users' :
                  /\ new.id = old.id
                  /\ new.telegram_id = old.telegram_id
                  /\ new.wallet = old.wallet
                  /\ new.username = resp'.request.username
                  /\ new.first_name = resp'.request.first_name
                  /\ new.last_name = resp'.request.last_name
                  /\ new.photo_url = resp'.request.photo_url
                  /\ users' \ {new} = users \ {old}
      /\ \A r \in users : \E n \in users' :
           n.id = r.id /\ n.telegram_id = r.telegram_id ]_vars

\* C10: when BOT_TOKEN is not set, no assertion is accepted, whatever its
\* hash: no login passes verification, no record exists and every login is
\* answered 401.
C10_FailsClosedWithoutBotToken ==
  ~botTokenSet =>
    /\ \A w \in Workers : req[w].pc # "selected"
    /\ users = {}
    /\ LoginAnswered => resp.status = 401

----------------------------------------------------------------------------
(* Claims about sessions, checked under SpecSession *)

Protected == {"me", "refresh", "wallet", "score"}
ProtectedAnswered == resp.op \in Protected

\* the state Valid of a credential at time t: signed with SECRET_KEY and
\* not yet at its expires_at
Valid(c, t) == c # NoCred /\ c.key = SECRET_KEY /\ t < c.exp

\* the identity a token of the server was issued for
SubjectOf(c) == CHOOSE i \in Ids : c.sub = ToString(i)

\* C5: the token returned for an accepted telegram_id, presented right
\* after it was issued, is resolved by verify_token to that telegram_id,
\* and GET /auth/me with it returns the record of that identity.
C5_IssueResolveRoundTrip ==
  /\ (LoginAnswered /\ resp.status = 200)
       => verify_token(resp.token, now) = [kind |-> "id", id |-> resp.request.id]
  /\ (resp.op = "me" /\ resp.request.cred \in held /\ resp.request.cred.iat = now)
       => /\ resp.status = 200
          /\ resp.body.telegram_id = SubjectOf(resp.request.cred)

\* C6: every token is issued with expires_at = issuance time + 7 days; a
\* request that bears an issued token at or after its expires_at is
\* answered 401 by every protected endpoint, returns no record and no new
\* token and changes no row; a token that has expired stays expired.
C6_ExpiredTokenRejected ==
  /\ [](/\ \A t \in held : t.exp = t.iat + 7 * 24 * 60 * 60
        /\ resp.token # NoToken
             => resp.token.iat = now /\ resp.token.exp = now + 7 * 24 * 60 * 60
        /\ (ProtectedAnswered /\ resp.request.cred \in held
              /\ now >= resp.request.cred.exp)
             => resp.status = 401 /\ resp.token = NoToken /\ resp.body = NoBody)
  /\ [][ /\ (resp' # resp /\ resp'.op \in Protected /\ resp'.request.cred \in held
               /\ now >= resp'.request.cred.exp)
              => UNCHANGED users
         /\ \A t \in held : ~Valid(t, now) => ~Valid(t, now') ]_vars

\* C6, its case: POST /auth/refresh with a token issued to identity 1,
\* presented at its expires_at or later, has been answered 401.
C6_Witness ==
  /\ resp.op = "refresh"
  /\ resp.request.cred \in held
  /\ resp.request.cred.sub = "1"
  /\ now >= resp.request.cred.exp
  /\ resp.status = 401

\* C7: a protected operation succeeds only with a token in the state
\* Valid, and a request with no credentials, with a token whose signature
\* does not verify under SECRET_KEY or with a malformed payload is answered
\* 401.
C7_OnlyValidTokensAnd401Otherwise ==
  ProtectedAnswered =>
    LET c == resp.request.cred IN
    /\ resp.status = 200 => Valid(c, now)
    /\ (c = NoCred \/ c.key # SECRET_KEY \/ c.sub = None \/ ~IsIntText(c.sub))
         => resp.status = 401

\* C8: PUT /user/wallet validates before it writes.  For a caller with an
\* issued token in the state Valid: 400 when the trimmed wallet is empty,
\* does not start with EQ or UQ or is shorter than 40 characters, else 200
\* and the caller's stored wallet is the trimmed value.  For any other
\* caller: 401, whatever the body.
C8_WalletValidatedBeforeWrite ==
  resp.op = "wallet" =>
    LET c == resp.request.cred
        trimmed == strip(IF resp.request.wallet = None THEN "" ELSE resp.request.wallet)
        bad == \/ trimmed = ""
               \/ ~(startswith(trimmed, "EQ") \/ startswith(trimmed, "UQ"))
               \/ Len(trimmed) < 40
    IN  IF ~(c \in held /\ Valid(c, now)) THEN resp.status = 401
        ELSE IF bad THEN resp.status = 400
        ELSE /\ resp.status = 200
             /\ \A r \in RowsOf(users, SubjectOf(c)) : r.wallet = trimmed

\* C8, for the callers get_current_user admits (a check beside the claim):
\* the status follows the format of the trimmed wallet, a 400 changes no
\* row and a 200 stores the trimmed value in the caller's row alone.
C8_ValidationForAdmittedCallers ==
  [][ (resp' # resp /\ resp'.op = "wallet" /\ resp'.status \in {200, 400}) =>
        LET c == resp'.request.cred
            trimmed == strip(IF resp'.request.wallet = None THEN ""
                             ELSE resp'.request.wallet)
            bad == \/ trimmed = ""
                   \/ ~(startswith(trimmed, "EQ") \/ startswith(trimmed, "UQ"))
                   \/ Len(trimmed) < 40
            me == RowsOf(users, SubjectOf(c))
        IN  IF bad THEN resp'.status = 400 /\ UNCHANGED users
            ELSE /\ resp'.status = 200
                 /\ users' = (users \ me) \cup { [r EXCEPT !.wallet = trimmed] : r \in me } ]_vars

----------------------------------------------------------------------------
(* Two identities side by side: logins served one at a time, sessions and
   wallets of both, and the clock *)

IsolationIds == {1, 2}

\* TelegramAuthData bodies for the two identities at time t: for every
\* profile the body carrying the digest the server computes, and the same
\* fields signed under another bot token
IsolationLogins(t) ==
  UNION { { WithHash(f, calculated_hash(f, BOT_TOKEN)),
            WithHash(f, widget_hash(f, "another-bot-token")) } :
          f \in { [id |-> i, first_name |-> p.first_name, username |-> p.username,
                   last_name |-> p.last_name, photo_url |-> p.photo_url,
                   auth_date |-> t - AuthMaxAge] : i \in IsolationIds, p \in Profiles } }

\* a well-formed wallet with blanks around it, and a malformed one
IsolationWallets == { "  UQ" \o Tail38 \o " ", "XQ" \o Tail38 }

\* credentials of a request: none, a token a client holds, or a token that
\* names identity 1 and is signed with a key other than SECRET_KEY
IsolationCreds(t) == {NoCred} \cup held \cup {jwt_encode("1", t + TokenLifetime, t, OtherKey)}

\* score_data: a complete body and one without "game"
IsolationScores == { [game |-> "chess", score |-> 0], [score |-> 5] }

NextIsolation ==
  \/ \E a \in Arriving(IsolationLogins(now)) : LoginQuery(1, a)
  \/ LoginCommit(1)
  \/ \E c \in Arriving(IsolationCreds(now)) : Me(c)
  \/ \E c \in Arriving(IsolationCreds(now)) : Refresh(c)
  \/ \E c \in Arriving(IsolationCreds(now)) : \E raw \in IsolationWallets : UpdateWallet(c, raw)
  \/ \E c \in Arriving(IsolationCreds(now)) : \E sd \in IsolationScores : SubmitScore(c, sd)
  \/ \E tid \in Arriving(IsolationIds) : GetUserById(tid)
  \/ KeepToken
  \/ Tick
  \/ Deliver

SpecIsolation == Init /\ [][NextIsolation]_vars

----------------------------------------------------------------------------
(* Claim about isolation between identities, checked under SpecIsolation *)

\* the wallet stored for telegram_id X, None when X has no record or no wallet
WalletOf(rows, X) ==
  IF RowsOf(rows, X) = {} THEN None ELSE (CHOOSE r \in RowsOf(rows, X) : TRUE).wallet

\* the display fields stored for telegram_id X
DisplayOf(rows, X) ==
  IF RowsOf(rows, X) = {} THEN <<>>
  ELSE LET r == CHOOSE q \in RowsOf(rows, X) : TRUE
       IN  <<r.username, r.first_name, r.last_name, r.photo_url>>

\* the token c is in the state Valid and its subject is X
ValidFor(c, X) == Valid(c, now) /\ IsIntText(c.sub) /\ int(c.sub) = X

\* C11: the wallet of the record of X changes only in a PUT /user/wallet
\* step whose token is Valid with subject X; its display fields (and its
\* existence) change only in a POST /auth/telegram step answering an
\* assertion with id X that passed verification; /auth/me, /auth/refresh,
\* GET /user/{telegram_id} and /submit-score change no record; a request
\* with a token of subject A changes no record of another identity, and
\* /auth/me returns to it the record of A alone.
C11_IsolationBetweenIdentities ==
  [][ /\ \A X \in IsolationIds :
           /\ WalletOf(users', X) # WalletOf(users, X)
                => /\ resp' # resp /\ resp'.op = "wallet" /\ resp'.status = 200
                   /\ ValidFor(resp'.request.cred, X)
           /\ DisplayOf(users', X) # DisplayOf(users, X)
                => /\ resp' # resp /\ resp'.op = "login" /\ resp'.status = 200
                   /\ resp'.request.id = X
                   /\ \E w \in Workers :
                        /\ req[w].pc = "selected" /\ req'[w] = Idle
                        /\ req[w].auth = resp'.request
                        /\ req[w].auth.hash = calculated_hash(req[w].auth, BOT_TOKEN)
      /\ (resp' # resp /\ resp'.op \in {"me", "refresh", "user", "score"})
           => UNCHANGED users
      /\ (resp' # resp /\ resp'.op \in Protected /\ resp'.request.cred # NoCred)
           => LET c == resp'.request.cred IN
              /\ \A r \in (users \ users') \cup (users' \ users) :
                   IsIntText(c.sub) /\ r.telegram_id = int(c.sub)
              /\ (resp'.op = "me" /\ resp'.status = 200)
                   => /\ ValidFor(c, resp'.body.telegram_id)
                      /\ \E r \in RowsOf(users, int(c.sub)) : resp'.body = user_body(r)
      /\ \A r \in users : \E q \in users' : q.id = r.id /\ q.telegram_id = r.telegram_id
    ]_vars

\* C11, its case: identity 1 has stored a wallet with its token while the
\* record of identity 2 exists, carries other display fields and has no
\* wallet.
C11_Witness ==
  /\ resp.op = "wallet" /\ resp.status = 200
  /\ resp.request.cred.sub = "1"
  /\ WalletOf(users, 1) = resp.body.wallet
  /\ RowsOf(users, 2) # {}
  /\ WalletOf(users, 2) = None
  /\ DisplayOf(users, 2) # DisplayOf(users, 1)

====
